---------------------------- MODULE Spec2Model ----------------------------
(***************************************************************************)
(* The drawer stack of src/providers/root/drawer-stack-provider.tsx: the   *)
(* shared ordered list of modal descriptors (modalStackAtom), the hook API *)
(* useDrawerStack (present and its returned closure), the shared actions   *)
(* (dismiss, dismissTop, dismissAll), the route-change effect of the       *)
(* renderer, and the close paths of the mounted Modal elements.            *)
(*                                                                         *)
(* Strings are TLA+ strings; a generated id is built exactly as the        *)
(* template literal of line 64 builds it.  A descriptor carries a field    *)
(* ref, the (scope, counter) pair of the present call that created the     *)
(* object: it stands for the JavaScript identity of the modalProps object  *)
(* of line 66 and is never read by any modelled operation.                 *)
(***************************************************************************)
EXTENDS Naturals, Sequences, FiniteSets, TLC

\* Bounds of the model.
MaxPresent == 3   \* present calls in one behaviour, over all scopes
MaxClose == 2     \* invocations of one onClose callback that are counted
MaxModals == 2    \* present calls while the Modal elements are observed
MaxPulse == 1     \* 'noticed' pulses of one element that are in flight
MaxSheets == 1    \* sheets of the other sheet stack (sheetStackAtom)

\* The caller scopes: the values useId() gave to two components (line 59).
Scopes == {":r1:", ":r2:"}

\* Ids a caller may pass explicitly (props.id, line 63): an ordinary one and
\* one that has the shape of a generated id.
ExplicitIds == {"x", ":r1:-0"}

\* props.id absent (line 63: id?: string).
Undefined == "undefined"

\* The values usePathname() may return (line 52).
Pathnames == {"/", "/a"}

VARIABLES
  modalStackAtom,   \* line 49: the stack, a sequence of descriptors
  modalIdToPropsMap, \* line 31: the side table from id to descriptor
  currentCount,     \* line 60: the useRef counter of each scope
  onCloseCalls,     \* per descriptor with an onClose callback: its invocations
  drawerStackMounted, \* the DrawerStack component has mounted (line 111)
  isClient,         \* line 113: the client-ready gate
  pathname,         \* line 52: the path the renderer last rendered with
  effectPending,    \* the effect of lines 53-55 is scheduled and has not run
  modals,           \* the descriptors whose Modal element is mounted
  isMobile,         \* line 205: what useIsMobile() returns
  sheetStackLength, \* line 208: jotaiStore.get(sheetStackAtom).length
  zIndex,           \* per mounted element: the z-index of its last render
  animateController, \* line 162, per element: the scale it animates to (in
                    \* hundredths) and the pulse continuations in flight
  unmounted,        \* line 184: the elements whose isUnmounted.current is set
  synthesized,      \* history: per scope, the modalIds line 64 has built
  storedAs,         \* history: per scope, the id each call's descriptor got
  last              \* history: the operation that produced this state

vars == <<modalStackAtom, modalIdToPropsMap, currentCount, onCloseCalls,
          drawerStackMounted, isClient, pathname, effectPending, modals,
          isMobile, sheetStackLength, zIndex, animateController, unmounted,
          synthesized, storedAs, last>>

\* The state of the mounted elements.
elements == <<modals, isMobile, sheetStackLength, zIndex, animateController,
              unmounted>>

-----------------------------------------------------------------------------
\* Pure helpers: the list operations of the store.

\* Array.prototype.filter with the predicate item.id !== id (lines 76, 90, 147).
RECURSIVE filterIdNot(_, _)
filterIdNot(p, id) ==
  IF p = << >> THEN << >>
  ELSE IF Head(p).id /= id
       THEN <<Head(p)>> \o filterIdNot(Tail(p), id)
       ELSE filterIdNot(Tail(p), id)

\* A faulty concat: the new descriptor is put in front.
concatFront(p, modalProps) == <<modalProps>> \o p

\* p.concat(modalProps), line 71.
concat(p, modalProps) == p \o <<modalProps>>

\* A faulty slice, p.slice(1): the first element is dropped, not the last.
sliceDropFirst(p) == IF Len(p) = 0 THEN << >> ELSE Tail(p)

\* p.slice(0, -1), line 95: all but the last element; empty stays empty.
sliceDropLast(p) == IF Len(p) = 0 THEN << >> ELSE SubSeq(p, 1, Len(p) - 1)

\* `${id}-${currentCount.current++}`, line 64: the id part.
modalIdOf(id, count) == id \o "-" \o ToString(count)

\* A faulty counter: read and never incremented.
noIncrement(count) == count

\* currentCount.current++, line 64: the counter after the call.
postIncrement(count) == count + 1

\* props.id ?? modalId, line 68.
nullish(id, modalId) == IF id = Undefined THEN modalId ELSE id

Range(p) == {p[i] : i \in 1..Len(p)}

\* A faulty renderer: the client-ready gate is not consulted.
renderUngated(stack, client, mounted, elems) ==
  IF mounted THEN elems \cup Range(stack) ELSE elems

\* What DrawerStack renders (lines 115-122): nothing before the gate opens,
\* then one Modal per descriptor of the stack; AnimatePresence keeps the
\* elements of removed descriptors mounted until their exit completes.
render(stack, client, mounted, elems) ==
  IF mounted /\ client THEN elems \cup Range(stack) ELSE elems

\* The position of the descriptor of call r in p, 0 when it is not in p.
IndexOf(p, r) ==
  IF \E i \in 1..Len(p) : p[i].ref = r
  THEN CHOOSE i \in 1..Len(p) : p[i].ref = r
  ELSE 0

\* The z-index a Modal gives its element when it renders with this index
\* (0-based, line 120): the sheet's zIndex on a mobile viewport (lines
\* 207-214), modalStyle on the motion.div of the default chrome (lines 175,
\* 261); the custom chrome never uses modalStyle and has the z-[20] of its
\* container (lines 221-229).
zIndexOf(item, index, mobile, drawerLength) ==
  IF mobile THEN 1000 + drawerLength
  ELSE IF item.CustomModalComponent THEN 20
  ELSE 99 + index

\* The z-indexes after a render of the stack next, the stack having been old
\* at the render before: Modal is memoized (line 143), so an element renders
\* again only when its item or index changed; with all set (the viewport
\* class changed) every element of the stack renders again.  An element whose
\* descriptor has left the stack keeps the style of its last render.
restyle(old, next, elems, mobile, all) ==
  [r \in {m.ref : m \in elems} |->
     LET i == IndexOf(next, r)
     IN IF i = 0 THEN zIndex[r]
        ELSE IF r \in DOMAIN zIndex /\ IndexOf(old, r) = i /\ ~all
        THEN zIndex[r]
        ELSE zIndexOf(next[i], i - 1, mobile, sheetStackLength)]

\* enterStyle, lines 126-129: scale 1.
enterStyle == [scale |-> 100, pending |-> 0]

\* The animation controllers after a render: an element that mounts starts
\* the enter animation (lines 163-165).
enter(elems) ==
  [r \in DOMAIN animateController \cup {m.ref : m \in elems} |->
     IF r \in DOMAIN animateController THEN animateController[r]
     ELSE enterStyle]

TotalPresented == currentCount[":r1:"] + currentCount[":r2:"]

-----------------------------------------------------------------------------
Init ==
  /\ modalStackAtom = << >>
  /\ modalIdToPropsMap = << >>
  /\ currentCount = [s \in Scopes |-> 0]
  /\ onCloseCalls = << >>
  /\ drawerStackMounted = FALSE
  /\ isClient = FALSE
  /\ pathname = "/"
  /\ effectPending = FALSE
  /\ modals = {}
  /\ isMobile = FALSE
  /\ sheetStackLength = 0
  /\ zIndex = << >>
  /\ animateController = << >>
  /\ unmounted = {}
  /\ synthesized = [s \in Scopes |-> << >>]
  /\ storedAs = [s \in Scopes |-> << >>]
  /\ last = [op |-> "init", arg |-> "", len |-> 0, again |-> FALSE,
             hit |-> FALSE]

\* The history record of one operation: its name, its argument, the length
\* of the stack it started from, and, for the closure of present, whether
\* the operation before it was the same closure (again) and whether this
\* call or that run of calls removed an entry (hit).
Op(op, arg, again, hit) ==
  [op |-> op, arg |-> arg, len |-> Len(modalStackAtom), again |-> again,
   hit |-> hit]

\* The re-render of DrawerStack and of its Modal elements that a store write
\* or the opening of the gate triggers.
rerender(next, client) ==
  /\ modals' = render(next, client, drawerStackMounted, modals)
  /\ zIndex' = restyle(modalStackAtom, next, modals', isMobile, FALSE)
  /\ animateController' = enter(modals')
  /\ UNCHANGED <<isMobile, sheetStackLength, unmounted>>

\* A store write (jotaiStore.set, setStack) followed by the re-render it
\* triggers.
setStack(next, op, arg) ==
  /\ modalStackAtom' = next
  /\ rerender(next, isClient)
  /\ last' = Op(op, arg, FALSE, FALSE)

\* present(props) of the scope whose useId() is id, lines 62-73.
present(id, props) ==
  /\ TotalPresented < MaxPresent
  /\ LET count == currentCount[id]
         modalId == modalIdOf(id, count)
         modalProps == [id |-> nullish(props.id, modalId),
                        onClose |-> props.onClose,
                        clickOutsideToDismiss |-> props.clickOutsideToDismiss,
                        CustomModalComponent |-> props.CustomModalComponent,
                        ref |-> <<id, count>>]
     IN /\ currentCount' = [currentCount EXCEPT ![id] = postIncrement(count)]
        /\ synthesized' = [synthesized EXCEPT ![id] = Append(@, modalId)]
        /\ storedAs' = [storedAs EXCEPT ![id] = Append(@, modalProps.id)]
        /\ modalIdToPropsMap' =
             (modalProps.id :> modalProps) @@ modalIdToPropsMap
        /\ onCloseCalls' = IF props.onClose
                           THEN (<<id, count>> :> 0) @@ onCloseCalls
                           ELSE onCloseCalls
        /\ setStack(concat(modalStackAtom, modalProps), "present",
                    <<id, count>>)
  /\ UNCHANGED <<drawerStackMounted, isClient, pathname, effectPending>>

\* A faulty closure: it drops the top of the stack whatever its id.
closureDropsTop(p, modalId) == sliceDropLast(p)

\* What the closure returned by present stores, lines 75-77.
closureValue(p, modalId) == filterIdNot(p, modalId)

\* The closure returned by the count-th present call of scope id, lines 74-78.
presentClosure(id, count) ==
  /\ count < currentCount[id]
  /\ LET next == closureValue(modalStackAtom, modalIdOf(id, count))
         again == last.op = "closure" /\ last.arg = <<id, count>>
     IN /\ modalStackAtom' = next
        /\ rerender(next, isClient)
        /\ last' = Op("closure", <<id, count>>, again,
                      next /= modalStackAtom \/ (again /\ last.hit))
  /\ UNCHANGED <<modalIdToPropsMap, currentCount, onCloseCalls, drawerStackMounted, isClient,
                 pathname, effectPending, synthesized, storedAs>>

\* actions.dismiss(id), lines 88-92.
dismiss(id) ==
  /\ setStack(filterIdNot(modalStackAtom, id), "dismiss", id)
  /\ UNCHANGED <<modalIdToPropsMap, currentCount, onCloseCalls, drawerStackMounted, isClient,
                 pathname, effectPending, synthesized, storedAs>>

\* actions.dismissTop(), lines 93-97.
dismissTop ==
  /\ setStack(sliceDropLast(modalStackAtom), "dismissTop", "")
  /\ UNCHANGED <<modalIdToPropsMap, currentCount, onCloseCalls, drawerStackMounted, isClient,
                 pathname, effectPending, synthesized, storedAs>>

\* A faulty dismissAll: it drops only the top of the stack.
dismissAllDropsTop(p) == sliceDropLast(p)

\* What actions.dismissAll() stores, line 99.
dismissAllValue(p) == << >>

\* actions.dismissAll(), lines 98-100.
dismissAll ==
  /\ setStack(dismissAllValue(modalStackAtom), "dismissAll", "")
  /\ UNCHANGED <<modalIdToPropsMap, currentCount, onCloseCalls, drawerStackMounted, isClient,
                 pathname, effectPending, synthesized, storedAs>>

\* DrawerStack mounts (lines 111-115): its first render reads the current
\* path and schedules the effects of useIsClient and of lines 53-55.
mountDrawerStack ==
  /\ ~drawerStackMounted
  /\ drawerStackMounted' = TRUE
  /\ effectPending' = TRUE
  /\ last' = Op("mount", "", FALSE, FALSE)
  /\ UNCHANGED <<modalStackAtom, modalIdToPropsMap, currentCount, onCloseCalls, isClient,
                 pathname, elements, synthesized, storedAs>>

\* useIsClient (line 113) reports the first client-side pass: the gate opens
\* and the renderer renders the stack (lines 117-123).
clientReady ==
  /\ drawerStackMounted
  /\ ~isClient
  /\ isClient' = TRUE
  /\ rerender(modalStackAtom, TRUE)
  /\ last' = Op("clientReady", "", FALSE, FALSE)
  /\ UNCHANGED <<modalStackAtom, modalIdToPropsMap, currentCount, onCloseCalls,
                 drawerStackMounted, pathname, effectPending, synthesized, storedAs>>

\* A navigation: DrawerStack re-renders with a new usePathname() value
\* (line 52), which schedules the effect of lines 53-55.  React runs the
\* pending effects of a commit before the next render of the component.
navigate(path) ==
  /\ drawerStackMounted
  /\ ~effectPending
  /\ path /= pathname
  /\ pathname' = path
  /\ effectPending' = TRUE
  /\ last' = Op("navigate", path, FALSE, FALSE)
  /\ UNCHANGED <<modalStackAtom, modalIdToPropsMap, currentCount, onCloseCalls,
                 drawerStackMounted, isClient, elements, synthesized, storedAs>>

\* A faulty effect: it dismisses the top descriptor only.
routeEffectDropsTop(p) == sliceDropLast(p)

\* What the effect of useDismissAllWhenRouterChange stores, lines 53-55:
\* actions.dismissAll().
routeEffectValue(p) == dismissAllValue(p)

\* The effect of useDismissAllWhenRouterChange runs, lines 53-55.
useDismissAllWhenRouterChange ==
  /\ effectPending
  /\ effectPending' = FALSE
  /\ setStack(routeEffectValue(modalStackAtom), "routeEffect", pathname)
  /\ UNCHANGED <<modalIdToPropsMap, currentCount, onCloseCalls, drawerStackMounted, isClient,
                 pathname, synthesized, storedAs>>

\* Modal.close of the element of descriptor item, lines 145-149; it is the
\* dismiss capability handed to the content (lines 201-203).
close(item) ==
  /\ item \in modals
  /\ setStack(filterIdNot(modalStackAtom, item.id), "close", item.ref)
  /\ UNCHANGED <<modalIdToPropsMap, currentCount, onCloseCalls, drawerStackMounted, isClient,
                 pathname, effectPending, synthesized, storedAs>>

\* Modal.onClose(open) of the element of descriptor item, lines 151-161: the
\* onOpenChange handler of the dialog and of the sheet.
onClose(item, open) ==
  /\ item \in modals
  /\ ~open
  /\ item.onClose => onCloseCalls[item.ref] < MaxClose
  /\ setStack(filterIdNot(modalStackAtom, item.id), "onClose", item.ref)
  /\ onCloseCalls' = IF item.onClose
                     THEN [onCloseCalls EXCEPT ![item.ref] = @ + 1]
                     ELSE onCloseCalls
  /\ UNCHANGED <<modalIdToPropsMap, currentCount, drawerStackMounted, isClient, pathname,
                 effectPending, synthesized, storedAs>>

\* useIsUnMounted (line 184): the flag of an element is set when it unmounts.
useIsUnMounted(flags, r) == flags \cup {r}

\* f without its entry for r.
Without(f, r) == [x \in DOMAIN f \ {r} |-> f[x]]

\* AnimatePresence (lines 118-122) unmounts the element of a descriptor that
\* left the stack once its exit animation has completed.  The controller and
\* the flag of an unmounted element are kept only while a continuation of
\* noticeModal still refers to them.
exitComplete(item) ==
  /\ item \in modals
  /\ item \notin Range(modalStackAtom)
  /\ modals' = modals \ {item}
  /\ zIndex' = [r \in DOMAIN zIndex \ {item.ref} |-> zIndex[r]]
  /\ IF animateController[item.ref].pending > 0
     THEN /\ unmounted' = useIsUnMounted(unmounted, item.ref)
          /\ UNCHANGED animateController
     ELSE /\ animateController' = Without(animateController, item.ref)
          /\ UNCHANGED unmounted
  /\ last' = Op("exitComplete", item.ref, FALSE, FALSE)
  /\ UNCHANGED <<isMobile, sheetStackLength>>
  /\ UNCHANGED <<modalStackAtom, modalIdToPropsMap, currentCount, onCloseCalls,
                 drawerStackMounted, isClient, pathname, effectPending,
                 synthesized, storedAs>>

\* stopPropagation of ~/lib/dom (line 27): the event goes no further up.
stopPropagation(e) == [e EXCEPT !.stopped = TRUE]

\* A faulty dialog body: its click handler is missing.
bodyOnClickMissing(e) == e

\* The click handler of the dialog body: onClick={stopPropagation}, line 234
\* (custom chrome) and line 277 (default chrome).
bodyOnClick(e) == stopPropagation(e)

\* A faulty backdrop: the branches of the conditionals are swapped.
backdropOnClickSwapped(item) ==
  IF item.CustomModalComponent
  THEN (IF item.clickOutsideToDismiss THEN "undefined" ELSE "dismiss")
  ELSE (IF item.clickOutsideToDismiss THEN "noticeModal" ELSE "dismiss")

\* The click handler of the backdrop, the container of the dialog: line 232
\* (custom chrome) and line 258 (default chrome).
backdropOnClick(item) ==
  IF item.CustomModalComponent
  THEN (IF item.clickOutsideToDismiss THEN "dismiss" ELSE "undefined")
  ELSE (IF item.clickOutsideToDismiss THEN "dismiss" ELSE "noticeModal")

\* The handler a click on target ("body" or "backdrop") of a dialog ends in:
\* the event starts at its target and bubbles from the body to the backdrop
\* unless its propagation was stopped.
dispatchClick(item, target) ==
  LET e0 == [stopped |-> FALSE]
      e1 == IF target = "body" THEN bodyOnClick(e0) ELSE e0
  IN IF e1.stopped THEN "undefined" ELSE backdropOnClick(item)

\* noticeModal, lines 185-192: the first step of the pulse, scale 1.05, and
\* its continuation in flight.
noticeModal(a) == [scale |-> 105, pending |-> a.pending + 1]

\* A faulty continuation: the second step is issued whatever the flag says.
thenUnguarded(a, isUnmounted) == [scale |-> 100, pending |-> a.pending - 1]

\* The continuation of the first step, lines 193-198: the second step,
\* scale 1, unless the element has unmounted.
then(a, isUnmounted) ==
  IF isUnmounted THEN [a EXCEPT !.pending = @ - 1]
  ELSE [scale |-> 100, pending |-> a.pending - 1]

\* A click on the dialog of a mounted element (desktop rendering, lines
\* 221-299), on its body or on its backdrop; Modal.dismiss is lines 176-182.
click(item, target) ==
  /\ item \in modals
  /\ ~isMobile
  /\ LET handler == dispatchClick(item, target)
     IN \/ /\ handler = "dismiss"
           /\ setStack(filterIdNot(modalStackAtom, item.id), "click",
                       <<item.ref, target>>)
        \/ /\ handler = "noticeModal"
           /\ animateController[item.ref].pending < MaxPulse
           /\ animateController' =
                [animateController EXCEPT ![item.ref] = noticeModal(@)]
           /\ last' = Op("click", <<item.ref, target>>, FALSE, FALSE)
           /\ UNCHANGED <<modalStackAtom, modals, isMobile, sheetStackLength,
                          zIndex, unmounted>>
        \/ /\ handler = "undefined"
           /\ last' = Op("click", <<item.ref, target>>, FALSE, FALSE)
           /\ UNCHANGED <<modalStackAtom, elements>>
  /\ UNCHANGED <<modalIdToPropsMap, currentCount, onCloseCalls,
                 drawerStackMounted, isClient, pathname, effectPending,
                 synthesized, storedAs>>

\* The first step of a pulse of element r completes and its continuation
\* runs, lines 193-198.  The history records the flag the continuation read
\* and the scale the controller animates to when it returns.
pulseDone(r) ==
  /\ r \in DOMAIN animateController
  /\ animateController[r].pending > 0
  /\ LET a == then(animateController[r], r \in unmounted)
     IN IF r \in unmounted /\ a.pending = 0
        THEN /\ animateController' = Without(animateController, r)
             /\ unmounted' = unmounted \ {r}
        ELSE /\ animateController' = [animateController EXCEPT ![r] = a]
             /\ UNCHANGED unmounted
  /\ last' = Op("pulseDone",
                <<r, r \in unmounted,
                  then(animateController[r], r \in unmounted).scale>>,
                FALSE, FALSE)
  /\ UNCHANGED <<modalStackAtom, modalIdToPropsMap, currentCount,
                 onCloseCalls, drawerStackMounted, isClient, pathname,
                 effectPending, modals, isMobile, sheetStackLength, zIndex,
                 synthesized, storedAs>>

\* The viewport class changes: useIsMobile() (line 205) makes every Modal
\* render again.
resize ==
  /\ isMobile' = ~isMobile
  /\ zIndex' = restyle(modalStackAtom, modalStackAtom, modals, ~isMobile, TRUE)
  /\ last' = Op("resize", "", FALSE, FALSE)
  /\ UNCHANGED <<modalStackAtom, modalIdToPropsMap, currentCount,
                 onCloseCalls, drawerStackMounted, isClient, pathname,
                 effectPending, modals, sheetStackLength, animateController,
                 unmounted, synthesized, storedAs>>

\* The other sheet stack changes (sheetStackAtom of ~/components/ui/sheet,
\* line 23); the Modal elements read it without subscribing (line 208).
sheetStackChange(n) ==
  /\ n /= sheetStackLength
  /\ sheetStackLength' = n
  /\ last' = Op("sheetStackChange", "", FALSE, FALSE)
  /\ UNCHANGED <<modalStackAtom, modalIdToPropsMap, currentCount,
                 onCloseCalls, drawerStackMounted, isClient, pathname,
                 effectPending, modals, isMobile, zIndex, animateController,
                 unmounted, synthesized, storedAs>>

-----------------------------------------------------------------------------
\* The ids dismiss may be called with: the explicit ones and every id a
\* scope can generate within the bound.
AllIds ==
  ExplicitIds \cup {modalIdOf(s, n) : s \in Scopes, n \in 0..(MaxPresent - 1)}

\* The descriptors the callers of the store present: with a generated or an
\* explicit id.  The store operations never read onClose.
PropsStore ==
  [id : ExplicitIds \cup {Undefined}, onClose : {FALSE},
   clickOutsideToDismiss : {FALSE}, CustomModalComponent : {FALSE}]

\* The descriptors presented while the elements are observed: with or
\* without an onClose callback.
PropsModal ==
  [id : {"x", Undefined}, onClose : BOOLEAN,
   clickOutsideToDismiss : {FALSE}, CustomModalComponent : {FALSE}]

\* The store and the route-change guard, driven through the hook API.
Next ==
  \/ \E s \in Scopes, props \in PropsStore : present(s, props)
  \/ \E s \in Scopes, n \in 0..(MaxPresent - 1) : presentClosure(s, n)
  \/ \E id \in AllIds : dismiss(id)
  \/ dismissTop
  \/ dismissAll
  \/ mountDrawerStack
  \/ \E path \in Pathnames : navigate(path)
  \/ useDismissAllWhenRouterChange

Spec == Init /\ [][Next]_vars

\* The same, with the renderer's gate and the mounted Modal elements: one
\* caller scope presents, at most MaxModals times, and every close path of an
\* element may fire.
NextModal ==
  \/ \E props \in PropsModal :
       TotalPresented < MaxModals /\ present(":r1:", props)
  \/ \E n \in 0..(MaxPresent - 1) : presentClosure(":r1:", n)
  \/ \E id \in AllIds : dismiss(id)
  \/ dismissTop
  \/ dismissAll
  \/ mountDrawerStack
  \/ clientReady
  \/ \E path \in Pathnames : navigate(path)
  \/ useDismissAllWhenRouterChange
  \/ \E item \in modals : close(item)
  \/ \E item \in modals, open \in BOOLEAN : onClose(item, open)
  \/ \E item \in modals : exitComplete(item)

SpecModal == Init /\ [][NextModal]_vars

\* The descriptors presented while the dialogs are clicked: with an onClose
\* callback and every combination of the options the click handlers read.
PropsElement ==
  [id : {Undefined}, onClose : {TRUE},
   clickOutsideToDismiss : BOOLEAN, CustomModalComponent : BOOLEAN]

\* The mounted elements of a desktop viewport under user input: clicks on
\* the dialogs and the pulse, with removals from outside.
NextElement ==
  \/ \E props \in PropsElement :
       TotalPresented < MaxModals /\ present(":r1:", props)
  \/ dismissTop
  \/ mountDrawerStack
  \/ clientReady
  \/ useDismissAllWhenRouterChange
  \/ \E item \in modals, target \in {"body", "backdrop"} : click(item, target)
  \/ \E r \in DOMAIN animateController : pulseDone(r)
  \/ \E item \in modals : exitComplete(item)

SpecElement == Init /\ [][NextElement]_vars

\* The descriptors presented while the layering is observed: with the
\* default or a custom chrome.
PropsLayout ==
  [id : {Undefined}, onClose : {FALSE},
   clickOutsideToDismiss : {FALSE}, CustomModalComponent : BOOLEAN]

\* The rendering of the stack on both viewport classes, beside the other
\* sheet stack.
NextLayout ==
  \/ \E props \in PropsLayout :
       TotalPresented < MaxModals /\ present(":r1:", props)
  \/ \E id \in AllIds : dismiss(id)
  \/ dismissTop
  \/ mountDrawerStack
  \/ clientReady
  \/ useDismissAllWhenRouterChange
  \/ \E item \in modals : exitComplete(item)
  \/ resize
  \/ \E n \in 0..MaxSheets : sheetStackChange(n)

SpecLayout == Init /\ [][NextLayout]_vars

-----------------------------------------------------------------------------
\* Helpers of the properties.

\* The descriptor created by present call r is in p.
HasRef(p, r) == \E i \in 1..Len(p) : p[i].ref = r

\* A descriptor with this id is in p.
HasId(p, id) == \E i \in 1..Len(p) : p[i].id = id

\* p without its i-th entry, the others in order.
RemoveAt(p, i) == SubSeq(p, 1, i - 1) \o SubSeq(p, i + 1, Len(p))

\* The id that line 64 built for present call r.
GeneratedId(r) == synthesized[r[1]][r[2] + 1]

\* The operations of the store that remove entries, and the element-level
\* close paths.
RemovalOps == {"closure", "dismiss", "dismissTop", "dismissAll", "routeEffect",
               "close", "onClose"}

-----------------------------------------------------------------------------
\* C1: invoking the closure returned by a present call while the descriptor
\* of that call is in the stack removes exactly that descriptor: the stack
\* afterwards is the previous stack minus that one entry, the rest in order
\* (whether the id was generated or passed by the caller).
C1_ClosureRemovesItsDescriptor ==
  [][(last'.op = "closure" /\ HasRef(modalStackAtom, last'.arg))
       => \E i \in 1..Len(modalStackAtom) :
            /\ modalStackAtom[i].ref = last'.arg
            /\ modalStackAtom' = RemoveAt(modalStackAtom, i)]_vars

\* C2: no two descriptors of the live stack have the same id.
C2_IdsUnique ==
  \A i, j \in 1..Len(modalStackAtom) :
    i /= j => modalStackAtom[i].id /= modalStackAtom[j].id

\* C3: a descriptor with an onClose callback has had it invoked exactly once
\* when it has left the stack, and not at all while it is in the stack.
C3_OnCloseOnceAfterRemoval ==
  \A r \in DOMAIN onCloseCalls :
    onCloseCalls[r] = IF HasRef(modalStackAtom, r) THEN 0 ELSE 1

\* C4: present appends exactly one entry at the end of the stack, the
\* descriptor it was called with under the id of line 68, and every earlier
\* descriptor keeps its position and its fields; an operation that is not a
\* removal leaves every descriptor of the stack where it is.
C4_PresentAppends ==
  [][/\ last'.op = "present"
        => /\ Len(modalStackAtom') = Len(modalStackAtom) + 1
           /\ \A i \in 1..Len(modalStackAtom) :
                modalStackAtom'[i] = modalStackAtom[i]
           /\ modalStackAtom'[Len(modalStackAtom')].ref = last'.arg
           /\ ~HasRef(modalStackAtom, last'.arg)
     /\ last'.op \notin RemovalOps
        => /\ Len(modalStackAtom') >= Len(modalStackAtom)
           /\ \A i \in 1..Len(modalStackAtom) :
                modalStackAtom'[i] = modalStackAtom[i]]_vars

C4_Witness ==
  /\ last.op = "present"
  /\ last.len = 2
  /\ Len(modalStackAtom) = 3
  /\ modalStackAtom[3].ref = last.arg

\* C5: dismiss(id) removes exactly one entry when a descriptor with that id
\* is in the stack and none when there is none, and the remaining
\* descriptors keep their relative order.
C5_DismissRemovesOne ==
  [][last'.op = "dismiss"
       => IF HasId(modalStackAtom, last'.arg)
          THEN \E i \in 1..Len(modalStackAtom) :
                 /\ modalStackAtom[i].id = last'.arg
                 /\ modalStackAtom' = RemoveAt(modalStackAtom, i)
          ELSE modalStackAtom' = modalStackAtom]_vars

\* C6: dismissTop on a stack of size n >= 1 yields the stack of size n - 1
\* that is the original without its last element, and on the empty stack it
\* yields the empty stack.
C6_DismissTop ==
  [][last'.op = "dismissTop"
       => IF Len(modalStackAtom) >= 1
          THEN /\ Len(modalStackAtom') = Len(modalStackAtom) - 1
               /\ \A i \in 1..Len(modalStackAtom') :
                    modalStackAtom'[i] = modalStackAtom[i]
          ELSE modalStackAtom' = << >>]_vars

C6_Witness ==
  /\ last.op = "dismissTop"
  /\ last.len = 3
  /\ Len(modalStackAtom) = 2
  /\ modalStackAtom[1] /= modalStackAtom[2]

\* C7: after dismissAll the stack is empty, whatever it held.
C7_DismissAllEmpties ==
  last.op = "dismissAll" => modalStackAtom = << >>

C7_Witness ==
  /\ last.op = "dismissAll"
  /\ last.len = 3
  /\ modalStackAtom = << >>

\* C8: a second call of the closure returned by present, right after a
\* first one, changes nothing.
C8_ClosureTwice ==
  [][(last'.op = "closure" /\ last'.again)
       => modalStackAtom' = modalStackAtom]_vars

\* The closure was called twice in a row, the first call removed its
\* descriptor and other descriptors are still in the stack.
C8_Witness ==
  /\ last.op = "closure"
  /\ last.again
  /\ last.hit
  /\ last.len >= 1
  /\ Len(modalStackAtom) = last.len
  /\ ~HasRef(modalStackAtom, last.arg)

\* C9: the ids line 64 builds for the present calls of one scope, with or
\* without an explicit id in the call, are pairwise distinct and start with
\* the scope's id and a hyphen; the scope's counter is the number of calls.
C9_GeneratedIdsDistinct ==
  \A s \in Scopes :
    /\ Len(synthesized[s]) = currentCount[s]
    /\ \A i, j \in 1..Len(synthesized[s]) :
         i /= j => synthesized[s][i] /= synthesized[s][j]
    /\ \A i \in 1..Len(synthesized[s]) :
         /\ Len(synthesized[s][i]) > Len(s) + 1
         /\ SubSeq(synthesized[s][i], 1, Len(s) + 1) = s \o "-"

\* Three calls of one scope, the stack holding one of them under an explicit
\* id and a later one under its generated id.
C9_Witness ==
  /\ currentCount[":r1:"] = 3
  /\ \E i, j \in 1..Len(modalStackAtom) :
       /\ i < j
       /\ modalStackAtom[i].ref[1] = ":r1:"
       /\ modalStackAtom[j].ref[1] = ":r1:"
       /\ modalStackAtom[i].id = "x"
       /\ modalStackAtom[j].id = GeneratedId(modalStackAtom[j].ref)

\* C10: when the effect of the route-change guard has run, the stack is
\* empty whatever it held, and the effect is not scheduled again until the
\* path changes again: one dismissAll per path change.
C10_RouteChangeEmpties ==
  last.op = "routeEffect" => (modalStackAtom = << >> /\ ~effectPending)

\* The effect of a navigation from "/" to "/a" ran on a stack of two.
C10_Witness ==
  /\ last.op = "routeEffect"
  /\ last.arg = "/a"
  /\ last.len = 2
  /\ modalStackAtom = << >>

\* The id under which the descriptor of present call r was stored (line 68).
StoredId(r) == storedAs[r[1]][r[2] + 1]

\* C13: the closure returned by a present call removes no descriptor other
\* than the one that call added: every other descriptor of the stack is
\* still in the stack after the closure has run.
C13_ClosureRemovesOnlyItsOwn ==
  [][last'.op = "closure"
       => \A i \in 1..Len(modalStackAtom) :
            modalStackAtom[i].ref /= last'.arg
              => modalStackAtom[i] \in Range(modalStackAtom')]_vars

\* C16: while the client-ready signal has not fired no Modal element is
\* rendered, whatever the stack holds; once it has fired every descriptor of
\* the stack has its element after every change, and the gate stays open.
C16_ClientGate ==
  [][/\ ~isClient' => modals' = {}
     /\ isClient' => Range(modalStackAtom') \subseteq modals'
     /\ isClient => isClient']_vars

\* The gate is open and a present after it has its element rendered, next
\* to the element of an earlier descriptor.
C16_Witness ==
  /\ isClient
  /\ last.op = "present"
  /\ Len(modalStackAtom) = 2
  /\ modalStackAtom[2].ref = last.arg
  /\ Range(modalStackAtom) \subseteq modals

\* C17: the element-level close path (Modal.close, Modal.onClose) changes
\* the stack exactly as dismiss of the element's id does, and the closure
\* returned by present changes it exactly as dismiss of the id of the
\* descriptor that call presented does.
C17_ClosePathsAreDismiss ==
  [][last'.op \in {"close", "onClose", "closure"}
       => modalStackAtom' =
            filterIdNot(modalStackAtom, StoredId(last'.arg))]_vars

\* C19: the effect of the route-change guard that runs for the renderer's
\* mount, with the first observed path, leaves the stack as it is: a
\* descriptor presented before the mount is still in the stack.
C19_MountKeepsStack ==
  [][(last.op = "mount" /\ last'.op = "routeEffect")
       => modalStackAtom' = modalStackAtom]_vars

-----------------------------------------------------------------------------
\* The mounted element of present call r, and whether there is one.
ModalOf(r) == CHOOSE m \in modals : m.ref = r

IsMounted(r) == \E m \in modals : m.ref = r

\* The step is a click on target of the dialog of a descriptor that is in
\* the stack with its element mounted.
ClickOn(target) ==
  /\ last'.op = "click"
  /\ last'.arg[2] = target
  /\ HasRef(modalStackAtom, last'.arg[1])

\* C11: a backdrop click on a mounted descriptor with clickOutsideToDismiss
\* removes the descriptor from the stack and invokes its onClose once.
C11_BackdropDismissCallsOnClose ==
  [][(ClickOn("backdrop") /\ ModalOf(last'.arg[1]).clickOutsideToDismiss)
       => LET r == last'.arg[1]
          IN /\ ~HasRef(modalStackAtom', r)
             /\ ModalOf(r).onClose
                  => onCloseCalls'[r] = onCloseCalls[r] + 1]_vars

C14_PulseReturnGuarded ==
  [][last'.op = "pulseDone"
       => LET r == last'.arg[1]
          IN IF IsMounted(r)
             THEN /\ ~last'.arg[2]
                  /\ last'.arg[3] = 100
                  /\ animateController'[r].scale = 100
             ELSE /\ last'.arg[2]
                  /\ last'.arg[3] = animateController[r].scale]_vars

\* A continuation ran after its element had unmounted and left the
\* controller at scale 1.05.
C14_Witness ==
  /\ last.op = "pulseDone"
  /\ last.arg[2]
  /\ last.arg[3] = 105
  /\ ~IsMounted(last.arg[1])

\* C15: once the renderer renders, every descriptor of the stack has its
\* element, and the z-index of the elements strictly increases with the
\* position in the stack, on both viewport classes.
C15_ZIndexFollowsStack ==
  (drawerStackMounted /\ isClient)
    => /\ Range(modalStackAtom) \subseteq modals
       /\ \A i, j \in 1..Len(modalStackAtom) :
            i < j => zIndex[modalStackAtom[i].ref]
                       < zIndex[modalStackAtom[j].ref]

\* C18: a click inside the body of a dialog, default or custom chrome, with
\* or without clickOutsideToDismiss, neither changes the stack nor starts
\* an animation.
C18_BodyClickStops ==
  [][ClickOn("body")
       => /\ modalStackAtom' = modalStackAtom
          /\ animateController' = animateController]_vars

\* The body of a dialog with clickOutsideToDismiss was clicked and its
\* descriptor is still in the stack.
C18_Witness ==
  /\ last.op = "click"
  /\ last.arg[2] = "body"
  /\ HasRef(modalStackAtom, last.arg[1])
  /\ IsMounted(last.arg[1])
  /\ ModalOf(last.arg[1]).clickOutsideToDismiss

=============================================================================
